---- MODULE Spec2Model ----
(***************************************************************************)
(* The dual-backend Task CRUD service: the MySQL router and the PostgreSQL *)
(* router, each a set of async Express handlers that issue parameterised   *)
(* SQL statements through a connection pool.  A handler runs atomically up *)
(* to each `await pool.query(...)`; the statement itself is executed       *)
(* atomically by the engine.  The engine's behaviour (id comparison,       *)
(* column types, defaults, timestamps) follows the schemas the repository  *)
(* ships.                                                                  *)
(***************************************************************************)
EXTENDS Integers, Sequences, FiniteSets, TLC

\* ---------------------------------------------------------------- bounds
\* Highest id the AUTO_INCREMENT / SERIAL counter hands out in a run.
MaxId == 2
\* Highest reading of the engine's CURRENT_TIMESTAMP in a run.
MaxClock == 3
\* Most handlers suspended at an await at one time.
MaxInflight == 2
MaxWaiting == 2

\* ------------------------------------------------------------ JS values
\* A destructured body key that is absent, and JSON null.
Undefined == "<undefined>"
Null == "<null>"

\* JavaScript truthiness of the values a JSON body key can take here.
JsFalse == "<false>"
JsZero == "<0>"
Falsy(v) == v \in {Undefined, Null, "", JsFalse, JsZero}

\* `a || b`
OrElse(a, b) == IF Falsy(a) THEN b ELSE a

validStatuses == <<"pending", "in_progress", "completed">>

\* Array.prototype.includes
Includes(arr, v) == \E i \in 1..Len(arr) : arr[i] = v

RECURSIVE Join(_, _)
\* Array.prototype.join
Join(arr, sep) ==
    IF Len(arr) = 0 THEN ""
    ELSE IF Len(arr) = 1 THEN arr[1]
    ELSE arr[1] \o sep \o Join(Tail(arr), sep)

\* ------------------------------------------------------------- requests
\* The values the model draws for each body key.
Titles == {Undefined, "", "a"}
Descriptions == {Undefined, "d"}
Statuses == {Undefined, Null, "", "completed", "bogus"}
Bodies == [title : Titles, description : Descriptions, status : Statuses]
\* The bodies the handlers are examined on in every state.
AnyBodies ==
    [title : Titles \cup {Null},
     description : Descriptions \cup {Null},
     status : Statuses \cup {JsFalse, JsZero}]
EmptyBody == [title |-> Undefined, description |-> Undefined, status |-> Undefined]
\* The bodies drawn where the run follows the timestamps, not the values.
PlainBodies == [title : {Undefined, "a"}, description : {Undefined},
                status : {Undefined, "completed"}]

\* Bodies that also carry id and created_at keys.
KeyedBodies ==
    {[title |-> b.title, description |-> b.description, status |-> b.status,
      id |-> 9, created_at |-> 0] : b \in AnyBodies}

\* The bodies drawn where requests overlap.
ConcBodies == [title : {Undefined, "a"}, description : {Undefined},
               status : {Undefined, "completed", "in_progress"}]

\* req.params.id is the raw path segment: a string, here a sequence of
\* characters.
Digits == {"0", "1", "2", "3", "4", "5", "6", "7", "8", "9"}
DigitVal(c) ==
    CASE c = "0" -> 0 [] c = "1" -> 1 [] c = "2" -> 2 [] c = "3" -> 3
      [] c = "4" -> 4 [] c = "5" -> 5 [] c = "6" -> 6 [] c = "7" -> 7
      [] c = "8" -> 8 [] c = "9" -> 9
NumeralOf(n) == <<CHOOSE c \in Digits : DigitVal(c) = n>>
PathIds == {NumeralOf(n) : n \in 1..(MaxId + 1)} \cup {<<"x">>, <<"1", "x">>}

\* Does the path segment parse as an integer?
IsInteger(s) == Len(s) > 0 /\ \A i \in 1..Len(s) : s[i] \in Digits

RECURSIVE DigitsValue(_)
DigitsValue(s) ==
    IF Len(s) = 0 THEN 0
    ELSE 10 * DigitsValue(SubSeq(s, 1, Len(s) - 1)) + DigitVal(s[Len(s)])

RECURSIVE DigitPrefix(_)
DigitPrefix(s) ==
    IF Len(s) = 0 \/ s[1] \notin Digits THEN <<>>
    ELSE <<s[1]>> \o DigitPrefix(Tail(s))

\* ---------------------------------------------------------- deployments
\* The three schemas the repository documents: the MySQL init script, the
\* PostgreSQL init script (enum type and BEFORE UPDATE trigger) and the
\* Render PostgreSQL table (status VARCHAR(50), no trigger).
Deployments == {"mysql", "pg_init", "pg_render"}
Backend(d) == IF d = "mysql" THEN "mysql" ELSE "postgresql"

VARIABLES
    db,        \* the deployment the run follows
    tasks,     \* the rows of table `tasks`
    nextId,    \* the AUTO_INCREMENT / SERIAL counter
    clock,     \* the engine's CURRENT_TIMESTAMP at the column's resolution
    inflight,  \* handlers suspended at an await, with what they hold
    last,      \* the response the client has not read yet, with the request
               \* it answers and the statements that request issued
    server,    \* the Node process: starting, listening or exited (and how)
    pools,     \* per pool: connections checked out, requests queued, and
               \* whether the pool keeps a connection idle
    silent,    \* the backends that do not answer at present
    probe      \* the run of startServer or of the /health handler in progress

taskVars == <<db, tasks, nextId, clock, inflight>>
procVars == <<server, pools, silent, probe>>
vars == <<db, tasks, nextId, clock, inflight, last, server, pools, silent, probe>>

\* ----------------------------------------------------------- the engine
\* WHERE id = <param>, the parameter being the path string.  MySQL compares
\* an INT column with a string by converting the string to a number (its
\* leading digits, 0 if none); PostgreSQL casts the text to integer and
\* raises an error if it is not one.
IdParam(d, s) ==
    IF Backend(d) = "mysql"
        THEN [err |-> FALSE, n |-> DigitsValue(DigitPrefix(s))]
        ELSE IF IsInteger(s)
            THEN [err |-> FALSE, n |-> DigitsValue(s)]
            ELSE [err |-> TRUE, n |-> 0]

\* The rows `WHERE id = n` selects, as the driver's result array.
RowsWithId(t, n) ==
    IF \E r \in t : r.id = n THEN <<CHOOSE r \in t : r.id = n>> ELSE <<>>

\* What the engine reports when a statement fails.
NoErr == ""
ConnLost == "connection lost"
BadInteger == "invalid input syntax for type integer"
BadDouble == "Truncated incorrect DOUBLE value"
NullTitle == "Column 'title' cannot be null"
BadStatus == "invalid value for column 'status'"

\* The instant a write statement stamps rows with.  MySQL's TIMESTAMP has
\* one-second resolution, so statements of the same second read the same
\* value; PostgreSQL's has microsecond resolution, so each statement reads
\* a later instant than the one before it.
StmtNow(d, clk) == IF Backend(d) = "mysql" THEN clk ELSE clk + 1

\* Can the status column hold v?  ENUM('pending','in_progress','completed')
\* in the two init scripts, VARCHAR(50) on Render; nullable in all three.
StatusColumnAccepts(d, v) ==
    \/ v = Null
    \/ Includes(validStatuses, v)
    \/ d = "pg_render"

\* SELECT * FROM tasks WHERE id = <s>
SelectById(d, t, s, fail) ==
    IF fail THEN [err |-> ConnLost, rows |-> <<>>]
    ELSE LET p == IdParam(d, s) IN
         IF p.err THEN [err |-> BadInteger, rows |-> <<>>]
         ELSE [err |-> NoErr, rows |-> RowsWithId(t, p.n)]

\* SELECT * FROM tasks ORDER BY created_at DESC: every order of the rows in
\* which created_at never increases (rows with equal created_at come in an
\* order the engine chooses).
IsCreatedDesc(rows) ==
    \A i, j \in 1..Len(rows) : i < j => rows[i].created_at >= rows[j].created_at

RECURSIVE Orderings(_)
Orderings(S) ==
    IF S = {} THEN {<<>>}
    ELSE UNION {{<<r>> \o rest : rest \in Orderings(S \ {r})} : r \in S}

SelectAll(t, fail) ==
    IF fail THEN {[err |-> ConnLost, rows |-> <<>>]}
    ELSE {[err |-> NoErr, rows |-> rows] : rows \in {o \in Orderings(t) : IsCreatedDesc(o)}}

\* An engine that hands out the lowest id no row holds.
InsertTask_ReusesId(d, t, nid, clk, title, description, status, fail) ==
    IF fail \/ title = Null \/ ~StatusColumnAccepts(d, status)
        THEN [err |-> ConnLost, tasks |-> t, nextId |-> nid, clock |-> clk,
              insertId |-> 0, rows |-> <<>>]
    ELSE LET now == StmtNow(d, clk)
             free == CHOOSE k \in 1..nid :
                        /\ \A r \in t : r.id # k
                        /\ \A j \in 1..(k - 1) : \E r \in t : r.id = j
             row == [id |-> free, title |-> title, description |-> description,
                     status |-> status, created_at |-> now, updated_at |-> now]
         IN [err |-> NoErr, tasks |-> t \cup {row}, nextId |-> nid + 1,
             clock |-> now, insertId |-> free, rows |-> <<row>>]

\* INSERT INTO tasks (title, description, status) VALUES (...): the engine
\* assigns id from the counter and both timestamps from CURRENT_TIMESTAMP.
InsertTask(d, t, nid, clk, title, description, status, fail) ==
    IF fail
        THEN [err |-> ConnLost, tasks |-> t, nextId |-> nid, clock |-> clk,
              insertId |-> 0, rows |-> <<>>]
    ELSE IF title = Null
        THEN [err |-> NullTitle, tasks |-> t, nextId |-> nid, clock |-> clk,
              insertId |-> 0, rows |-> <<>>]
    ELSE IF ~StatusColumnAccepts(d, status)
        THEN [err |-> BadStatus, tasks |-> t, nextId |-> nid, clock |-> clk,
              insertId |-> 0, rows |-> <<>>]
    ELSE LET now == StmtNow(d, clk)
             row == [id |-> nid, title |-> title, description |-> description,
                     status |-> status, created_at |-> now, updated_at |-> now]
         IN [err |-> NoErr, tasks |-> t \cup {row}, nextId |-> nid + 1,
             clock |-> now, insertId |-> nid, rows |-> <<row>>]

\* The value updated_at takes when a row is rewritten: MySQL refreshes it
\* (ON UPDATE CURRENT_TIMESTAMP) only if some column changed value, the
\* PostgreSQL trigger refreshes it on every UPDATE of the row, and the
\* Render table has no trigger.
UpdatedAt(d, old, new, now) ==
    IF d = "mysql"
        THEN IF new.title # old.title \/ new.description # old.description
                \/ new.status # old.status
             THEN now ELSE old.updated_at
    ELSE IF d = "pg_init" THEN now
    ELSE old.updated_at

\* An engine that stamps created_at too when it rewrites a row.
SetColumns_RestampsCreated(d, old, sets, now) ==
    [old EXCEPT
        !.title = IF sets.title # Undefined THEN sets.title ELSE @,
        !.description = IF sets.description # Undefined THEN sets.description ELSE @,
        !.status = IF sets.status # Undefined THEN sets.status ELSE @,
        !.created_at = now,
        !.updated_at = now]

\* An UPDATE that writes every column, the default status where the
\* request gave none.
SetColumns_WritesAllColumns(d, old, sets, now) ==
    [old EXCEPT
        !.title = IF sets.title # Undefined THEN sets.title ELSE @,
        !.description = IF sets.description # Undefined THEN sets.description ELSE @,
        !.status = IF sets.status # Undefined THEN sets.status ELSE "pending",
        !.updated_at = now]

\* The row after SET <the keys of sets that are not Undefined>.
SetColumns(d, old, sets, now) ==
    LET new == [old EXCEPT
                  !.title = IF sets.title # Undefined THEN sets.title ELSE @,
                  !.description =
                      IF sets.description # Undefined THEN sets.description ELSE @,
                  !.status = IF sets.status # Undefined THEN sets.status ELSE @]
    IN [new EXCEPT !.updated_at = UpdatedAt(d, old, new, now)]

\* UPDATE tasks SET ... WHERE id = <s>.  PostgreSQL converts the parameters
\* when it binds them, so a bad id or enum text fails the statement whether
\* or not a row matches; MySQL checks the column values row by row, and in
\* strict mode rejects a non-numeric id in the WHERE of a data-changing
\* statement.
UpdateTask(d, t, clk, sets, s, fail) ==
    LET p == IdParam(d, s)
        old == RowsWithId(t, p.n)
        now == StmtNow(d, clk)
        Failed(e) == [err |-> e, tasks |-> t, clock |-> clk, rows |-> <<>>]
    IN  IF fail THEN Failed(ConnLost)
        ELSE IF p.err THEN Failed(BadInteger)
        ELSE IF Backend(d) = "mysql" /\ ~IsInteger(s) THEN Failed(BadDouble)
        ELSE IF Backend(d) = "postgresql" /\ sets.status # Undefined
                /\ ~StatusColumnAccepts(d, sets.status) THEN Failed(BadStatus)
        ELSE IF old = <<>> THEN [err |-> NoErr, tasks |-> t, clock |-> clk, rows |-> <<>>]
        ELSE IF sets.title = Null THEN Failed(NullTitle)
        ELSE IF sets.status # Undefined /\ ~StatusColumnAccepts(d, sets.status)
            THEN Failed(BadStatus)
        ELSE LET new == SetColumns(d, old[1], sets, now)
             IN [err |-> NoErr, tasks |-> (t \ {old[1]}) \cup {new},
                 clock |-> now, rows |-> <<new>>]

\* DELETE FROM tasks WHERE id = <s>
DeleteById(d, t, s, fail) ==
    LET p == IdParam(d, s)
        old == RowsWithId(t, p.n)
    IN  IF fail THEN [err |-> ConnLost, tasks |-> t, rows |-> <<>>]
        ELSE IF p.err THEN [err |-> BadInteger, tasks |-> t, rows |-> <<>>]
        ELSE IF Backend(d) = "mysql" /\ ~IsInteger(s)
            THEN [err |-> BadDouble, tasks |-> t, rows |-> <<>>]
        ELSE IF old = <<>> THEN [err |-> NoErr, tasks |-> t, rows |-> <<>>]
        ELSE [err |-> NoErr, tasks |-> t \ {old[1]}, rows |-> old]

\* ------------------------------------------------------------ responses
\* res.status(code).json({...}): the keys a handler can send; a key the
\* handler does not send is Undefined (data and deletedTask: the empty
\* array, count: NoCount).
NoCount == 0 - 1
Json(code, success, error, message, data, count, deletedTask) ==
    [status |-> code, success |-> success, error |-> error, message |-> message,
     data |-> data, count |-> count, deletedTask |-> deletedTask]

TaskNotFound == "Task not found"
TitleRequired == "Title is required"
InvalidStatus == "Invalid status. Must be one of: " \o Join(validStatuses, ", ")
NoFields == "No fields to update"

ErrorJson(code, error) == Json(code, FALSE, error, Undefined, <<>>, NoCount, <<>>)
\* The catch block of every handler: 500 with the engine's message.
FailedJson(error, e) == Json(500, FALSE, error, e, <<>>, NoCount, <<>>)

\* What one run of a handler (up to its next await) does: the response it
\* sends, or the continuation it leaves suspended; the table, counter and
\* clock after the statement it issued; how many statements the request
\* has issued so far.
Done(resp, t, nid, clk, n) ==
    [done |-> TRUE, resp |-> resp, tasks |-> t, nextId |-> nid, clock |-> clk,
     stmts |-> n, cont |-> <<>>, sent |-> 1]
Suspended(t, nid, clk, n, cont) ==
    [done |-> FALSE, resp |-> ErrorJson(0, Undefined), tasks |-> t, nextId |-> nid,
     clock |-> clk, stmts |-> n, cont |-> <<cont>>, sent |-> 0]

\* The status check both POST and PUT make:
\* `status && !validStatuses.includes(status)`.
StatusRejected(status) == ~Falsy(status) /\ ~Includes(validStatuses, status)

\* A guard that tests the keys against null instead of undefined.
Updates_NullCheck(body) ==
    (IF body.title # Null THEN <<"title">> ELSE <<>>)
    \o (IF body.description # Null THEN <<"description">> ELSE <<>>)
    \o (IF body.status # Null THEN <<"status">> ELSE <<>>)

\* The columns PUT pushes onto `updates`, in order.
Updates(body) ==
    (IF body.title # Undefined THEN <<"title">> ELSE <<>>)
    \o (IF body.description # Undefined THEN <<"description">> ELSE <<>>)
    \o (IF body.status # Undefined THEN <<"status">> ELSE <<>>)

\* A SET that always writes description, null when the body has none.
SetValues_AllColumns(body) ==
    [title |-> body.title, description |-> OrElse(body.description, Null),
     status |-> body.status]

\* The value PUT binds to each pushed column (Undefined: not in the SET).
SetValues(body) ==
    [title |-> body.title, description |-> body.description, status |-> body.status]

\* ------------------------------------------------- PostgreSQL handlers
\* router.get('/tasks')
PgListTasks(t, nid, clk, fail) ==
    {IF r.err # NoErr
        THEN Done(FailedJson("Failed to fetch tasks", r.err), t, nid, clk, 1)
        ELSE Done(Json(200, TRUE, Undefined, Undefined, r.rows, Len(r.rows), <<>>),
                  t, nid, clk, 1)
     : r \in SelectAll(t, fail)}

\* A handler without the `result.rows.length === 0` branch.
PgGetTask_NoEmptyCheck(d, t, nid, clk, id, fail) ==
    LET r == SelectById(d, t, id, fail) IN
    IF r.err # NoErr
        THEN Done(FailedJson("Failed to fetch task", r.err), t, nid, clk, 1)
    ELSE Done(Json(200, TRUE, Undefined, Undefined, r.rows, NoCount, <<>>),
              t, nid, clk, 1)

\* router.get('/tasks/:id')
PgGetTask(d, t, nid, clk, id, fail) ==
    LET r == SelectById(d, t, id, fail) IN
    IF r.err # NoErr
        THEN Done(FailedJson("Failed to fetch task", r.err), t, nid, clk, 1)
    ELSE IF Len(r.rows) = 0
        THEN Done(ErrorJson(404, TaskNotFound), t, nid, clk, 1)
    ELSE Done(Json(200, TRUE, Undefined, Undefined, <<r.rows[1]>>, NoCount, <<>>),
              t, nid, clk, 1)

\* A handler that checks the status before the title.
PgPostTask_StatusFirst(d, t, nid, clk, body, fail) ==
    IF StatusRejected(body.status)
        THEN Done(ErrorJson(400, InvalidStatus), t, nid, clk, 0)
    ELSE IF Falsy(body.title)
        THEN Done(ErrorJson(400, TitleRequired), t, nid, clk, 0)
    ELSE LET r == InsertTask(d, t, nid, clk, body.title,
                             OrElse(body.description, Null),
                             OrElse(body.status, "pending"), fail)
         IN IF r.err # NoErr
                THEN Done(FailedJson("Failed to create task", r.err), t, nid, clk, 1)
            ELSE Done(Json(201, TRUE, Undefined, "Task created successfully",
                           <<r.rows[1]>>, NoCount, <<>>),
                      r.tasks, r.nextId, r.clock, 1)

\* router.post('/tasks')
PgPostTask(d, t, nid, clk, body, fail) ==
    IF Falsy(body.title)
        THEN Done(ErrorJson(400, TitleRequired), t, nid, clk, 0)
    ELSE IF StatusRejected(body.status)
        THEN Done(ErrorJson(400, InvalidStatus), t, nid, clk, 0)
    ELSE LET r == InsertTask(d, t, nid, clk, body.title,
                             OrElse(body.description, Null),
                             OrElse(body.status, "pending"), fail)
         IN IF r.err # NoErr
                THEN Done(FailedJson("Failed to create task", r.err), t, nid, clk, 1)
            ELSE Done(Json(201, TRUE, Undefined, "Task created successfully",
                           <<r.rows[1]>>, NoCount, <<>>),
                      r.tasks, r.nextId, r.clock, 1)

\* router.put('/tasks/:id')
\* A handler whose 404 lacks its `return`: it goes on to the final
\* res.json() with the response already sent.
PgPutTask_NoReturn(d, t, nid, clk, id, body, fail) ==
    IF StatusRejected(body.status)
        THEN Done(ErrorJson(400, InvalidStatus), t, nid, clk, 0)
    ELSE IF Len(Updates(body)) = 0
        THEN Done(ErrorJson(400, NoFields), t, nid, clk, 0)
    ELSE LET r == UpdateTask(d, t, clk, SetValues(body), id, fail) IN
         IF r.err # NoErr
             THEN Done(FailedJson("Failed to update task", r.err), t, nid, clk, 1)
         ELSE IF Len(r.rows) = 0
             THEN [Done(ErrorJson(404, TaskNotFound), r.tasks, nid, r.clock, 1)
                      EXCEPT !.sent = 2]
         ELSE Done(Json(200, TRUE, Undefined, "Task updated successfully",
                        <<r.rows[1]>>, NoCount, <<>>),
                   r.tasks, nid, r.clock, 1)

PgPutTask(d, t, nid, clk, id, body, fail) ==
    IF StatusRejected(body.status)
        THEN Done(ErrorJson(400, InvalidStatus), t, nid, clk, 0)
    ELSE IF Len(Updates(body)) = 0
        THEN Done(ErrorJson(400, NoFields), t, nid, clk, 0)
    ELSE LET r == UpdateTask(d, t, clk, SetValues(body), id, fail) IN
         IF r.err # NoErr
             THEN Done(FailedJson("Failed to update task", r.err), t, nid, clk, 1)
         ELSE IF Len(r.rows) = 0
             THEN Done(ErrorJson(404, TaskNotFound), r.tasks, nid, r.clock, 1)
         ELSE Done(Json(200, TRUE, Undefined, "Task updated successfully",
                        <<r.rows[1]>>, NoCount, <<>>),
                   r.tasks, nid, r.clock, 1)

\* router.delete('/tasks/:id')
PgDeleteTask(d, t, nid, clk, id, fail) ==
    LET r == DeleteById(d, t, id, fail) IN
    IF r.err # NoErr
        THEN Done(FailedJson("Failed to delete task", r.err), t, nid, clk, 1)
    ELSE IF Len(r.rows) = 0
        THEN Done(ErrorJson(404, TaskNotFound), r.tasks, nid, clk, 1)
    ELSE Done(Json(200, TRUE, Undefined, "Task deleted successfully",
                   <<>>, NoCount, <<r.rows[1]>>),
              r.tasks, nid, clk, 1)

\* ------------------------------------------------------ MySQL handlers
\* router.get('/tasks')
MyListTasks(t, nid, clk, fail) ==
    {IF r.err # NoErr
        THEN Done(FailedJson("Failed to fetch tasks", r.err), t, nid, clk, 1)
        ELSE Done(Json(200, TRUE, Undefined, Undefined, r.rows, Len(r.rows), <<>>),
                  t, nid, clk, 1)
     : r \in SelectAll(t, fail)}

\* A handler that issues the SELECT again when it fails.
MyGetTask_Retry(d, t, nid, clk, id, fail) ==
    LET first == SelectById(d, t, id, fail)
        r == IF first.err # NoErr THEN SelectById(d, t, id, FALSE) ELSE first
        n == IF first.err # NoErr THEN 2 ELSE 1
    IN IF r.err # NoErr
           THEN Done(FailedJson("Failed to fetch task", r.err), t, nid, clk, n)
       ELSE IF Len(r.rows) = 0
           THEN Done(ErrorJson(404, TaskNotFound), t, nid, clk, n)
       ELSE Done(Json(200, TRUE, Undefined, Undefined, <<r.rows[1]>>, NoCount, <<>>),
                 t, nid, clk, n)

\* router.get('/tasks/:id')
MyGetTask(d, t, nid, clk, id, fail) ==
    LET r == SelectById(d, t, id, fail) IN
    IF r.err # NoErr
        THEN Done(FailedJson("Failed to fetch task", r.err), t, nid, clk, 1)
    ELSE IF Len(r.rows) = 0
        THEN Done(ErrorJson(404, TaskNotFound), t, nid, clk, 1)
    ELSE Done(Json(200, TRUE, Undefined, Undefined, <<r.rows[1]>>, NoCount, <<>>),
              t, nid, clk, 1)

\* A handler that binds '' for a description the body does not carry.
MyPostTask_EmptyDescription(d, t, nid, clk, body, fail) ==
    IF Falsy(body.title)
        THEN Done(ErrorJson(400, TitleRequired), t, nid, clk, 0)
    ELSE IF StatusRejected(body.status)
        THEN Done(ErrorJson(400, InvalidStatus), t, nid, clk, 0)
    ELSE LET r == InsertTask(d, t, nid, clk, body.title,
                             OrElse(body.description, ""),
                             OrElse(body.status, "pending"), fail)
         IN IF r.err # NoErr
                THEN Done(FailedJson("Failed to create task", r.err), t, nid, clk, 1)
            ELSE Suspended(r.tasks, r.nextId, r.clock, 1,
                           [op |-> "POST", id |-> NumeralOf(r.insertId), body |-> body])

\* router.post('/tasks'), up to the await of the INSERT
MyPostTask(d, t, nid, clk, body, fail) ==
    IF Falsy(body.title)
        THEN Done(ErrorJson(400, TitleRequired), t, nid, clk, 0)
    ELSE IF StatusRejected(body.status)
        THEN Done(ErrorJson(400, InvalidStatus), t, nid, clk, 0)
    ELSE LET r == InsertTask(d, t, nid, clk, body.title,
                             OrElse(body.description, Null),
                             OrElse(body.status, "pending"), fail)
         IN IF r.err # NoErr
                THEN Done(FailedJson("Failed to create task", r.err), t, nid, clk, 1)
            ELSE Suspended(r.tasks, r.nextId, r.clock, 1,
                           [op |-> "POST", id |-> NumeralOf(r.insertId), body |-> body])

\* A handler that answers with the body's status instead of the stored one.
MyPostRefetch_EchoStatus(d, t, nid, clk, cont, fail) ==
    LET r == SelectById(d, t, cont.id, fail) IN
    IF r.err # NoErr
        THEN Done(FailedJson("Failed to create task", r.err), t, nid, clk, 2)
    ELSE Done(Json(201, TRUE, Undefined, "Task created successfully",
                   IF Len(r.rows) = 0 THEN <<>>
                   ELSE <<[r.rows[1] EXCEPT !.status = cont.body.status]>>,
                   NoCount, <<>>),
              t, nid, clk, 2)

\* router.post('/tasks'), from the INSERT's result on: the re-fetch by
\* insertId and the response.
MyPostRefetch(d, t, nid, clk, cont, fail) ==
    LET r == SelectById(d, t, cont.id, fail) IN
    IF r.err # NoErr
        THEN Done(FailedJson("Failed to create task", r.err), t, nid, clk, 2)
    ELSE Done(Json(201, TRUE, Undefined, "Task created successfully",
                   IF Len(r.rows) = 0 THEN <<>> ELSE <<r.rows[1]>>, NoCount, <<>>),
              t, nid, clk, 2)

\* router.put('/tasks/:id'), up to the await of the UPDATE
MyPutTask(d, t, nid, clk, id, body, fail) ==
    IF StatusRejected(body.status)
        THEN Done(ErrorJson(400, InvalidStatus), t, nid, clk, 0)
    ELSE IF Len(Updates(body)) = 0
        THEN Done(ErrorJson(400, NoFields), t, nid, clk, 0)
    ELSE LET r == UpdateTask(d, t, clk, SetValues(body), id, fail) IN
         IF r.err # NoErr
             THEN Done(FailedJson("Failed to update task", r.err), t, nid, clk, 1)
         ELSE IF Len(r.rows) = 0
             THEN Done(ErrorJson(404, TaskNotFound), r.tasks, nid, r.clock, 1)
         ELSE Suspended(r.tasks, nid, r.clock, 1,
                        [op |-> "PUT", id |-> id, body |-> body])

\* router.put('/tasks/:id'), from the UPDATE's result on: the re-fetch by
\* the path id and the response.
MyPutRefetch(d, t, nid, clk, cont, fail) ==
    LET r == SelectById(d, t, cont.id, fail) IN
    IF r.err # NoErr
        THEN Done(FailedJson("Failed to update task", r.err), t, nid, clk, 2)
    ELSE Done(Json(200, TRUE, Undefined, "Task updated successfully",
                   IF Len(r.rows) = 0 THEN <<>> ELSE <<r.rows[1]>>, NoCount, <<>>),
              t, nid, clk, 2)

\* router.delete('/tasks/:id')
MyDeleteTask(d, t, nid, clk, id, fail) ==
    LET r == DeleteById(d, t, id, fail) IN
    IF r.err # NoErr
        THEN Done(FailedJson("Failed to delete task", r.err), t, nid, clk, 1)
    ELSE IF Len(r.rows) = 0
        THEN Done(ErrorJson(404, TaskNotFound), r.tasks, nid, clk, 1)
    ELSE Done(Json(200, TRUE, Undefined, "Task deleted successfully",
                   <<>>, NoCount, <<>>),
              r.tasks, nid, clk, 1)

\* ------------------------------------------------------------- routing
\* app.use('/api/mysql', mysqlRoutes); app.use('/api/postgresql', ...):
\* the prefix selects the router, the method and path its handler.
ListTasks(d, t, nid, clk, fail) ==
    IF Backend(d) = "mysql" THEN MyListTasks(t, nid, clk, fail)
    ELSE PgListTasks(t, nid, clk, fail)
GetTask(d, t, nid, clk, id, fail) ==
    IF Backend(d) = "mysql" THEN MyGetTask(d, t, nid, clk, id, fail)
    ELSE PgGetTask(d, t, nid, clk, id, fail)
PostTask(d, t, nid, clk, body, fail) ==
    IF Backend(d) = "mysql" THEN MyPostTask(d, t, nid, clk, body, fail)
    ELSE PgPostTask(d, t, nid, clk, body, fail)
PutTask(d, t, nid, clk, id, body, fail) ==
    IF Backend(d) = "mysql" THEN MyPutTask(d, t, nid, clk, id, body, fail)
    ELSE PgPutTask(d, t, nid, clk, id, body, fail)
DeleteTask(d, t, nid, clk, id, fail) ==
    IF Backend(d) = "mysql" THEN MyDeleteTask(d, t, nid, clk, id, fail)
    ELSE PgDeleteTask(d, t, nid, clk, id, fail)

\* ---------------------------------------------------------- health check
\* process.env.NODE_ENV: unset, development or production.
Environments == {Undefined, "development", "production"}

\* mysqlDb.testConnection(): true if pool.getConnection() resolves, false
\* (the error caught) if it rejects.
MysqlTestConnection(reachable) == IF reachable THEN TRUE ELSE FALSE

\* postgresDb.testConnection(): true if pool.connect() and SELECT NOW()
\* resolve, false (the error caught) otherwise.
PgTestConnection(reachable) == IF reachable THEN TRUE ELSE FALSE

HealthJson(isHealthy, mysqlStatus, postgresStatus) ==
    [status |-> IF isHealthy THEN 200 ELSE 503,
     error |-> Undefined,
     sent |-> 1,
     data |-> <<[status |-> IF isHealthy THEN "healthy" ELSE "unhealthy",
                 databases |->
                     [mysql |-> IF mysqlStatus THEN "connected" ELSE "disconnected",
                      postgresql |->
                          IF postgresStatus THEN "connected" ELSE "disconnected"]]>>]

\* A handler that reports both backends by the PostgreSQL probe.
HealthBothRequired_OneProbe(env, mysqlUp, pgUp) ==
    LET postgresStatus == PgTestConnection(pgUp)
    IN HealthJson(postgresStatus, postgresStatus, postgresStatus)

\* app.get('/health') of the index.js that requires both backends.
HealthBothRequired(env, mysqlUp, pgUp) ==
    LET mysqlStatus == MysqlTestConnection(mysqlUp)
        postgresStatus == PgTestConnection(pgUp)
        isHealthy == mysqlStatus /\ postgresStatus
    IN HealthJson(isHealthy, mysqlStatus, postgresStatus)

\* app.get('/health') of the index.js that requires MySQL only outside
\* production.
HealthByMode(env, mysqlUp, pgUp) ==
    LET mysqlStatus == MysqlTestConnection(mysqlUp)
        postgresStatus == PgTestConnection(pgUp)
        isProduction == env = "production"
        isHealthy == IF isProduction THEN postgresStatus
                     ELSE mysqlStatus /\ postgresStatus
    IN HealthJson(isHealthy, mysqlStatus, postgresStatus)

\* The two index.js the repository holds.
Variants == {"both_required", "by_mode"}
HealthCheck(variant, env, mysqlUp, pgUp) ==
    IF variant = "both_required" THEN HealthBothRequired(env, mysqlUp, pgUp)
    ELSE HealthByMode(env, mysqlUp, pgUp)

\* ---------------------------------------------------- process and pools
Pools == {"mysql", "postgresql"}

\* mysql.createPool({ ..., waitForConnections: true, connectionLimit: 10,
\* queueLimit: 0 }) and new Pool({ ..., max: 10, idleTimeoutMillis: 30000,
\* connectionTimeoutMillis: 2000 }).
connectionLimit == 10
max == 10
PoolMax(p) == IF p = "mysql" THEN connectionLimit ELSE max

\* The Node process: startServer() is running, app.listen() was called, or
\* process.exit(code) was (code holds the exit code once there is one).
NoCode == <<>>
Starting == [phase |-> "starting", code |-> NoCode]
Listening == [phase |-> "listening", code |-> NoCode]
Exited(code) == [phase |-> "exited", code |-> <<code>>]

\* Per pool: the connections checked out, how many of them pool.query()
\* calls of task handlers hold, the requests queued for a connection, and
\* whether the pool keeps a connection idle.
NoneCheckedOut ==
    [p \in Pools |-> [out |-> 0, executing |-> 0, waiting |-> 0, idle |-> FALSE]]

\* const mysqlStatus = await mysqlDb.testConnection();
\* const postgresStatus = await postgresDb.testConnection();
\* of startServer() and of the /health handler: where the run stands, what
\* the probes returned, how often each was called and which ran a query
\* that succeeded.
NoProbe ==
    [for |-> "none", pc |-> "idle", mysqlStatus |-> FALSE, postgresStatus |-> FALSE,
     calls |-> [p \in Pools |-> 0], queried |-> {}]
NewProbe(for) == [NoProbe EXCEPT !.for = for, !.pc = "mysql"]

\* connection.release() / client.release(): the connection goes to the
\* request that waits longest, to the pool when none waits.
Release(ps, p) ==
    IF ps[p].waiting > 0
        THEN [ps EXCEPT ![p].waiting = @ - 1]
    ELSE [ps EXCEPT ![p].out = @ - 1, ![p].idle = TRUE]

\* A probe that tries a second time when its first getConnection() fails.
MysqlProbe_Retry(ps, pr, answers, accepts) ==
    LET connected == answers /\ accepts
    IN [pools |-> IF connected THEN [ps EXCEPT !["mysql"].idle = TRUE] ELSE ps,
        probe |-> [pr EXCEPT !.pc = "pg_connect",
                             !.mysqlStatus = connected,
                             !.calls["mysql"] = IF connected THEN @ + 1 ELSE @ + 2]]

\* MySQL testConnection(): pool.getConnection(), connection.release(),
\* return true; return false if getConnection() rejects. With every
\* connection in use getConnection() waits (waitForConnections: true and no
\* limit on the wait).
MysqlProbe(ps, pr, answers, accepts) ==
    LET connected == answers /\ accepts
    IN [pools |-> IF connected THEN [ps EXCEPT !["mysql"].idle = TRUE] ELSE ps,
        probe |-> [pr EXCEPT !.pc = "pg_connect",
                             !.mysqlStatus = connected,
                             !.calls["mysql"] = @ + 1]]

\* PostgreSQL testConnection(), up to its second await: pool.connect()
\* resolves with a client, or rejects (the server refuses, or no client
\* became available within connectionTimeoutMillis) and false is returned.
PgProbeConnect(ps, pr, answers, accepts) ==
    LET connected == answers /\ accepts /\ ps["postgresql"].out < max
    IN [pools |-> IF connected
                     THEN [ps EXCEPT !["postgresql"].out = @ + 1]
                  ELSE ps,
        probe |-> [pr EXCEPT !.pc = IF connected THEN "pg_query" ELSE "done",
                             !.postgresStatus = FALSE,
                             !.calls["postgresql"] = @ + 1]]

\* PostgreSQL testConnection(), from the result of client.query('SELECT
\* NOW()'): client.release() and return true if it resolved; the catch
\* block returns false if it rejected, and releases nothing.
PgProbeQuery(ps, pr, ok) ==
    [pools |-> IF ok THEN Release(ps, "postgresql") ELSE ps,
     probe |-> [pr EXCEPT !.pc = "done",
                          !.postgresStatus = ok,
                          !.queried = IF ok THEN @ \cup {"postgresql"} ELSE @]]

\* startServer(), after its two probes: the index.js that ignores their
\* results listens; the one that keeps them throws when PostgreSQL is not
\* connected, and its catch block calls process.exit(1).
StartServerIgnoringProbes(pr) == Listening
StartServerByMode(pr) == IF ~pr.postgresStatus THEN Exited(1) ELSE Listening
StartServerOf(variant, pr) ==
    IF variant = "both_required" THEN StartServerIgnoringProbes(pr)
    ELSE StartServerByMode(pr)

\* pool.on('error', ...) of the PostgreSQL pool calls process.exit(-1); the
\* MySQL pool registers no listener, the driver drops the connection.
OnIdleError(p, srv) == IF p = "postgresql" THEN Exited(-1) ELSE srv

\* ------------------------------------------------------------- actions
NoId == <<>>
NoResponse ==
    [op |-> "none", id |-> NoId, body |-> EmptyBody, status |-> 0,
     error |-> Undefined, data |-> <<>>, stmts |-> 0]

\* The service in front of a freshly created table: the empty table of the
\* Render script (the rows the two init scripts insert as samples are rows
\* like any a POST creates, with statuses of the enumeration).
Init ==
    /\ db \in Deployments
    /\ tasks = {}
    /\ nextId = 1
    /\ clock = 1
    /\ inflight = <<>>
    /\ last = NoResponse
    /\ server = Listening
    /\ pools = NoneCheckedOut
    /\ silent = {}
    /\ probe = NoProbe

\* The run stays within the bounds: the counter hands out at most MaxId
\* ids and the clock reads at most MaxClock.
WithinBounds(o) == o.nextId <= MaxId + 1 /\ o.clock <= MaxClock

\* What is recorded of a request and its response.
Sent(op, id, body, o) ==
    [op |-> op, id |-> id, body |-> body, status |-> o.resp.status,
     error |-> o.resp.error, data |-> o.resp.data, stmts |-> o.stmts]

\* The effect of one run of the handler of request (op, id, body) up to
\* its response or its next await.
Effect(o, op, id, body) ==
    /\ WithinBounds(o)
    /\ tasks' = o.tasks
    /\ nextId' = o.nextId
    /\ clock' = o.clock
    /\ IF o.done
          THEN /\ last' = Sent(op, id, body, o)
               /\ inflight' = inflight
          ELSE /\ last' = last
               /\ inflight' = Append(inflight, [o.cont[1] EXCEPT !.body = body])
    /\ UNCHANGED db
    /\ UNCHANGED procVars

\* Time passes at the engine.
Tick ==
    /\ clock < MaxClock
    /\ clock' = clock + 1
    /\ UNCHANGED <<db, tasks, nextId, inflight, last>>
    /\ UNCHANGED procVars

List ==
    \E fail \in BOOLEAN : \E o \in ListTasks(db, tasks, nextId, clock, fail) :
        Effect(o, "LIST", NoId, EmptyBody)

Get ==
    \E id \in PathIds, fail \in BOOLEAN :
        Effect(GetTask(db, tasks, nextId, clock, id, fail), "GET", id, EmptyBody)

Post(B) ==
    \E body \in B, fail \in BOOLEAN :
        Effect(PostTask(db, tasks, nextId, clock, body, fail), "POST", NoId, body)

Put(B) ==
    \E id \in PathIds, body \in B, fail \in BOOLEAN :
        Effect(PutTask(db, tasks, nextId, clock, id, body, fail), "PUT", id, body)

Delete ==
    \E id \in PathIds, fail \in BOOLEAN :
        Effect(DeleteTask(db, tasks, nextId, clock, id, fail), "DELETE", id, EmptyBody)

\* A suspended MySQL handler resumes with its statement's result.
Without(seq, i) == SubSeq(seq, 1, i - 1) \o SubSeq(seq, i + 1, Len(seq))

ResumePost ==
    \E i \in 1..Len(inflight), fail \in BOOLEAN :
        /\ inflight[i].op = "POST"
        /\ LET c == inflight[i]
               o == MyPostRefetch(db, tasks, nextId, clock, c, fail)
           IN /\ last' = Sent("POST", NoId, c.body, o)
              /\ inflight' = Without(inflight, i)
              /\ UNCHANGED <<db, tasks, nextId, clock>>
              /\ UNCHANGED procVars

ResumePut ==
    \E i \in 1..Len(inflight), fail \in BOOLEAN :
        /\ inflight[i].op = "PUT"
        /\ LET c == inflight[i]
               o == MyPutRefetch(db, tasks, nextId, clock, c, fail)
           IN /\ last' = Sent("PUT", c.id, c.body, o)
              /\ inflight' = Without(inflight, i)
              /\ UNCHANGED <<db, tasks, nextId, clock>>
              /\ UNCHANGED procVars

\* GET /health: which index.js runs, the NODE_ENV it was started with and
\* whether each backend can be reached are what the response is made from.
Health ==
    \E variant \in Variants, env \in Environments, mysqlUp, pgUp \in BOOLEAN :
        LET resp == HealthCheck(variant, env, mysqlUp, pgUp)
        IN /\ last' = [op |-> "HEALTH", id |-> NoId,
                       body |-> [variant |-> variant, env |-> env,
                                 mysql |-> mysqlUp, postgresql |-> pgUp],
                       status |-> resp.status, error |-> resp.error,
                       data |-> resp.data, stmts |-> 0]
           /\ UNCHANGED <<db, tasks, nextId, clock, inflight>>
           /\ UNCHANGED procVars

\* The client takes the response.
Read ==
    /\ last.op # "none"
    /\ last' = NoResponse
    /\ UNCHANGED <<db, tasks, nextId, clock, inflight>>
    /\ UNCHANGED procVars

\* A client that sends one request at a time: it sends the next one once
\* it has the response to the one before.
Ready == inflight = <<>> /\ last.op = "none"

\* Requests that arrive within one reading of the engine's clock.
Next ==
    \/ Ready /\ List
    \/ Ready /\ Get
    \/ Ready /\ Post(Bodies)
    \/ Ready /\ Put(Bodies)
    \/ Ready /\ Delete
    \/ Ready /\ Health
    \/ ResumePost
    \/ ResumePut
    \/ Read

Spec == Init /\ [][Next]_vars

\* Requests spread over time.
NextTime ==
    \/ Tick
    \/ Ready /\ List
    \/ Ready /\ Get
    \/ Ready /\ Post(PlainBodies)
    \/ Ready /\ Put(PlainBodies)
    \/ Ready /\ Delete
    \/ ResumePost
    \/ ResumePut
    \/ Read

SpecTime == Init /\ [][NextTime]_vars

\* Clients that do not wait for each other: a request is taken up while
\* handlers of earlier requests are suspended at their await.
Accepting == last.op = "none" /\ Len(inflight) < MaxInflight

NextConc ==
    \/ Accepting /\ Get
    \/ Accepting /\ Post(ConcBodies)
    \/ Accepting /\ Put(ConcBodies)
    \/ Accepting /\ Delete
    \/ ResumePost
    \/ ResumePut
    \/ Read

SpecConc == Init /\ [][NextConc]_vars

\* ------------------------------------------- the process and its pools
\* The process at the start of startServer(): nothing connected yet.
InitProc ==
    /\ db \in Deployments
    /\ tasks = {}
    /\ nextId = 1
    /\ clock = 1
    /\ inflight = <<>>
    /\ last = NoResponse
    /\ server = Starting
    /\ pools = NoneCheckedOut
    /\ silent = {}
    /\ probe = NewProbe("startup")

Running == server.phase # "exited"

\* The first probe of startServer() or of the /health handler returns.
ProbeMysql ==
    /\ Running
    /\ probe.pc = "mysql"
    /\ pools["mysql"].out < connectionLimit
    /\ \E accepts \in BOOLEAN :
        LET o == MysqlProbe(pools, probe, "mysql" \notin silent, accepts)
        IN pools' = o.pools /\ probe' = o.probe
    /\ UNCHANGED <<taskVars, last, server, silent>>

\* pool.connect() of the second probe settles.
ProbePgConnect ==
    /\ Running
    /\ probe.pc = "pg_connect"
    /\ \E accepts \in BOOLEAN :
        LET o == PgProbeConnect(pools, probe, "postgresql" \notin silent, accepts)
        IN pools' = o.pools /\ probe' = o.probe
    /\ UNCHANGED <<taskVars, last, server, silent>>

\* client.query('SELECT NOW()') of the second probe settles: no timeout
\* is set on the query, it settles when the server answers.
ProbePgQuery ==
    /\ Running
    /\ probe.pc = "pg_query"
    /\ "postgresql" \notin silent
    /\ \E ok \in BOOLEAN :
        LET o == PgProbeQuery(pools, probe, ok)
        IN pools' = o.pools /\ probe' = o.probe
    /\ UNCHANGED <<taskVars, last, server, silent>>

\* startServer() goes on after its probes. A process that exits closes
\* its connections.
StartServer ==
    /\ probe.for = "startup"
    /\ probe.pc = "done"
    /\ \E variant \in Variants :
        /\ server' = StartServerOf(variant, probe)
        /\ pools' = IF server'.phase = "exited" THEN NoneCheckedOut ELSE pools
    /\ probe' = NoProbe
    /\ UNCHANGED <<taskVars, last, silent>>

\* GET /health arrives.
HealthStart ==
    /\ server.phase = "listening"
    /\ probe.for = "none"
    /\ last.op = "none"
    /\ probe' = NewProbe("health")
    /\ UNCHANGED <<taskVars, last, server, pools, silent>>

\* The /health handler goes on after its probes and responds.
HealthRespond ==
    /\ Running
    /\ probe.for = "health"
    /\ probe.pc = "done"
    /\ \E variant \in Variants, env \in Environments :
        LET resp == HealthCheck(variant, env, probe.mysqlStatus, probe.postgresStatus)
        IN last' = [op |-> "HEALTH", id |-> NoId,
                    body |-> [variant |-> variant, env |-> env,
                              mysql |-> probe.mysqlStatus,
                              postgresql |-> probe.postgresStatus,
                              calls |-> probe.calls, queried |-> probe.queried],
                    status |-> resp.status, error |-> resp.error,
                    data |-> resp.data, stmts |-> 0]
    /\ probe' = NoProbe
    /\ UNCHANGED <<taskVars, server, pools, silent>>

\* A task handler calls pool.query(): it gets a connection of the pool of
\* its router, or is queued when all are in use.
ExecStart ==
    LET p == Backend(db)
    IN /\ server.phase = "listening"
       /\ last.op = "none"
       /\ IF pools[p].out < PoolMax(p)
             THEN pools' = [pools EXCEPT ![p].out = @ + 1,
                                         ![p].executing = @ + 1]
          ELSE /\ pools[p].waiting < MaxWaiting
               /\ pools' = [pools EXCEPT ![p].waiting = @ + 1]
       /\ UNCHANGED <<taskVars, last, server, silent, probe>>

\* The statement of a pool.query() settles, with rows or with an error:
\* the pool takes the connection back and hands it to a queued request.
ExecEnd ==
    LET p == Backend(db)
    IN /\ Running
       /\ pools[p].executing > 0
       /\ p \notin silent
       /\ pools' = IF pools[p].waiting > 0
                      THEN Release(pools, p)
                   ELSE [Release(pools, p) EXCEPT ![p].executing = @ - 1]
       /\ UNCHANGED <<taskVars, last, server, silent, probe>>

\* connectionTimeoutMillis elapses for a request queued at the PostgreSQL
\* pool: its pool.query() rejects.
ExecTimeout ==
    /\ Running
    /\ Backend(db) = "postgresql"
    /\ pools["postgresql"].waiting > 0
    /\ pools' = [pools EXCEPT !["postgresql"].waiting = @ - 1]
    /\ UNCHANGED <<taskVars, last, server, silent, probe>>

\* A connection a pool keeps idle fails (the server closed it, the
\* network dropped).
IdleError ==
    \E p \in Pools :
        /\ Running
        /\ pools[p].idle
        /\ server' = OnIdleError(p, server)
        /\ IF server'.phase = "exited"
              THEN pools' = NoneCheckedOut /\ probe' = NoProbe
           ELSE /\ \E remains \in BOOLEAN : pools' = [pools EXCEPT ![p].idle = remains]
                /\ probe' = probe
        /\ UNCHANGED <<taskVars, last, silent>>

\* A backend stops answering, or answers again.
Silence ==
    \E p \in Pools :
        /\ Running
        /\ silent' = IF p \in silent THEN silent \ {p} ELSE silent \cup {p}
        /\ UNCHANGED <<taskVars, last, server, pools, probe>>

NextProc ==
    \/ ProbeMysql
    \/ ProbePgConnect
    \/ ProbePgQuery
    \/ StartServer
    \/ HealthStart
    \/ HealthRespond
    \/ ExecStart
    \/ ExecEnd
    \/ ExecTimeout
    \/ IdleError
    \/ Silence
    \/ Read

SpecProc == InitProc /\ [][NextProc]_vars

\* The event loop runs every continuation whose promise has settled and
\* every timer that is due, and a backend that answers again and again
\* answers each statement it was sent: a step of the process that is
\* possible again and again is taken. Nothing obliges a backend to answer
\* or a client to send.
ProcessSteps ==
    /\ SF_vars(ProbeMysql)
    /\ SF_vars(ProbePgConnect)
    /\ SF_vars(ProbePgQuery)
    /\ SF_vars(StartServer)
    /\ SF_vars(HealthRespond)
    /\ SF_vars(ExecEnd)
    /\ SF_vars(ExecTimeout)

SpecLive == SpecProc /\ ProcessSteps

TypeOK ==
    /\ db \in Deployments
    /\ nextId \in 1..(MaxId + 1)
    /\ clock \in 1..MaxClock
    /\ \A r \in tasks : r.id \in 1..MaxId
    /\ server.phase \in {"starting", "listening", "exited"}
    /\ \A p \in Pools : /\ pools[p].out \in 0..PoolMax(p)
                       /\ pools[p].executing \in 0..pools[p].out
                       /\ pools[p].waiting \in 0..MaxWaiting
    /\ silent \subseteq Pools

\* ---------------------------------------------------------- properties
\* A request run to its response with no statement of another request in
\* between.
Complete(d, o) ==
    IF o.done THEN o
    ELSE IF o.cont[1].op = "POST"
        THEN MyPostRefetch(d, o.tasks, o.nextId, o.clock, o.cont[1], FALSE)
    ELSE MyPutRefetch(d, o.tasks, o.nextId, o.clock, o.cont[1], FALSE)

HasRow(t, n) == \E r \in t : r.id = n
Columns == {"title", "description", "status"}

\* A PUT body that supplies at least one field and only acceptable values.
ValidUpdate(body) ==
    /\ \E f \in Columns : body[f] # Undefined
    /\ body.title = Undefined \/ ~Falsy(body.title)
    /\ body.status = Undefined \/ Includes(validStatuses, body.status)

\* A POST body with a title and, if any, an enumerated status.
ValidCreate(body) ==
    /\ ~Falsy(body.title)
    /\ body.status = Undefined \/ Includes(validStatuses, body.status)

\* A step that sends the response to a request.
Responds(op) == last.op = "none" /\ last'.op = op

\* C1: GET /tasks/:id with a path id that is not an integer is answered 400
\* and issues no statement, on both backends.
C1_NonIntegerIdRejected ==
    (last.op = "GET" /\ ~IsInteger(last.id)) =>
        (last.status = 400 /\ last.stmts = 0)

\* C2: after any sequence of create and update requests, the status of
\* every persisted task is one of pending, in_progress, completed.
C2_StatusAlwaysEnumerated ==
    \A r \in tasks : Includes(validStatuses, r.status)

\* C3: a PUT that supplies a non-empty subset of title, description, status
\* to an existing task leaves each supplied field with the supplied value
\* and each other field of the three with the value it had; a valid such
\* body is accepted.
C3_UpdateSetsExactlySupplied ==
    Ready =>
        \A r \in tasks, body \in AnyBodies :
            LET o == Complete(db, PutTask(db, tasks, nextId, clock,
                                          NumeralOf(r.id), body, FALSE))
            IN /\ ValidUpdate(body) => o.resp.status = 200
               /\ o.resp.status = 200 =>
                     /\ \E f \in Columns : body[f] # Undefined
                     /\ \E n \in o.tasks :
                           /\ n.id = r.id
                           /\ \A f \in Columns :
                                 n[f] = IF body[f] # Undefined THEN body[f] ELSE r[f]

\* A PUT of a status alone has been answered 200 and the row still has the
\* description it was created with.
C3_Witness ==
    /\ last.op = "PUT" /\ last.status = 200
    /\ last.body.description = Undefined /\ last.body.status = "completed"
    /\ \E r \in tasks :
          /\ r.id = DigitsValue(last.id)
          /\ r.description = "d" /\ r.status = "completed"

\* C4: a POST (with a title) or a PUT whose body carries a status (a value
\* other than null) outside pending, in_progress, completed is answered 400
\* with the error naming the allowed values, and the table is unchanged.
C4_InvalidStatusRejected ==
    [][ \A op \in {"POST", "PUT"} :
          (/\ Responds(op)
           /\ last'.body.status \notin {Undefined, Null}
           /\ ~Includes(validStatuses, last'.body.status)
           /\ op = "POST" => ~Falsy(last'.body.title))
          => (/\ last'.status = 400
              /\ last'.error = InvalidStatus
              /\ last'.stmts = 0
              /\ tasks' = tasks) ]_vars

\* C5: a PUT whose body supplies none of title, description, status is
\* answered 400 "No fields to update" and issues no statement, whatever the
\* path id and the state of the backend.
C5_EmptyUpdateRejected ==
    Ready =>
        \A id \in PathIds, fail \in BOOLEAN :
            LET o == PutTask(db, tasks, nextId, clock, id, EmptyBody, fail)
            IN /\ o.done
               /\ o.resp = ErrorJson(400, "No fields to update")
               /\ o.stmts = 0
               /\ o.tasks = tasks

\* An empty PUT on an existing task has been answered.
C5_Witness ==
    /\ last.op = "PUT" /\ last.body = EmptyBody
    /\ last.status = 400 /\ last.error = NoFields /\ last.stmts = 0
    /\ HasRow(tasks, DigitsValue(last.id))

C7_MissingIdNotFound ==
    Ready =>
        \A k \in 1..(MaxId + 1) :
            ~HasRow(tasks, k) =>
                LET id == NumeralOf(k)
                    notFound == Json(404, FALSE, "Task not found", Undefined,
                                     <<>>, NoCount, <<>>)
                    g == GetTask(db, tasks, nextId, clock, id, FALSE)
                    x == DeleteTask(db, tasks, nextId, clock, id, FALSE)
                IN /\ g.resp = notFound /\ g.tasks = tasks
                   /\ x.resp = notFound /\ x.tasks = tasks
                   /\ \A body \in AnyBodies :
                         ValidUpdate(body) =>
                            LET u == Complete(db, PutTask(db, tasks, nextId, clock,
                                                          id, body, FALSE))
                            IN u.resp = notFound /\ u.tasks = tasks

\* A valid PUT on an id with no row, other rows existing, has been answered.
C7_Witness ==
    /\ last.op = "PUT" /\ ValidUpdate(last.body) /\ IsInteger(last.id)
    /\ ~HasRow(tasks, DigitsValue(last.id)) /\ tasks # {}
    /\ last.status = 404 /\ last.error = TaskNotFound

\* C8: DELETE on an existing id removes exactly that row (one row fewer,
\* the others untouched), a GET on that id is then answered 404, and an id
\* that has been handed out and has no row never has a row again.
C8_DeleteRemovesOne ==
    Ready =>
        \A r \in tasks :
            LET id == NumeralOf(r.id)
                x == DeleteTask(db, tasks, nextId, clock, id, FALSE)
            IN /\ x.resp.status = 200
               /\ x.tasks = tasks \ {r}
               /\ Cardinality(x.tasks) = Cardinality(tasks) - 1
               /\ GetTask(db, x.tasks, nextId, clock, id, FALSE).resp.status = 404

C8_NeverResurrected ==
    \A k \in 1..MaxId :
        (k < nextId /\ ~HasRow(tasks, k)) => ~HasRow(tasks', k)

C8_DeleteIsFinal == [](C8_DeleteRemovesOne) /\ [][C8_NeverResurrected]_vars

\* Task 1 was deleted, a task was created afterwards, and a GET of id 1 is
\* answered 404.
C8_Witness ==
    /\ last.op = "GET" /\ last.id = NumeralOf(1) /\ last.status = 404
    /\ ~HasRow(tasks, 1) /\ HasRow(tasks, 2)

\* C9: a GET by the id a successful create returned, with no write in
\* between, returns a task equal field by field to the one the create
\* returned; a valid create succeeds.
C9_CreateThenGet ==
    Ready =>
        \A body \in AnyBodies :
            LET o == Complete(db, PostTask(db, tasks, nextId, clock, body, FALSE))
            IN /\ ValidCreate(body) => o.resp.status = 201
               /\ o.resp.status = 201 =>
                     /\ Len(o.resp.data) = 1
                     /\ LET g == GetTask(db, o.tasks, o.nextId, o.clock,
                                         NumeralOf(o.resp.data[1].id), FALSE)
                        IN g.resp.status = 200 /\ g.resp.data = o.resp.data

\* A GET of the task created last has been answered 200.
C9_Witness ==
    /\ last.op = "GET" /\ last.status = 200 /\ IsInteger(last.id)
    /\ DigitsValue(last.id) = nextId - 1
    /\ HasRow(tasks, nextId - 1)

C11_CreateDefaults ==
    Ready =>
        \A title \in Titles :
            ~Falsy(title) =>
                LET body == [EmptyBody EXCEPT !.title = title]
                    o == Complete(db, PostTask(db, tasks, nextId, clock, body, FALSE))
                IN /\ o.resp.status = 201
                   /\ Len(o.resp.data) = 1
                   /\ LET task == o.resp.data[1]
                      IN /\ task.title = title
                         /\ task.status = "pending"
                         /\ task.description = Null
                         /\ task.id \in Nat \ {0}
                         /\ ~HasRow(tasks, task.id)
                         /\ {r \in o.tasks : r.id = task.id} = {task}
                         /\ task.created_at = task.updated_at

\* A POST of a title alone has been answered 201 with the defaulted task,
\* another task existing.
C11_Witness ==
    /\ last.op = "POST" /\ last.body = [EmptyBody EXCEPT !.title = "a"]
    /\ last.status = 201
    /\ Len(last.data) = 1
    /\ last.data[1].status = "pending" /\ last.data[1].description = Null
    /\ last.data[1].id = 2 /\ HasRow(tasks, 1)

\* C12 (supplied fields): every PUT answered 200 carries a task in which
\* each field the body supplied has the supplied value, also when other
\* requests on the same id run between the statements of the update.
C12_UpdateResponseShowsUpdate ==
    (last.op = "PUT" /\ last.status = 200) =>
        /\ Len(last.data) = 1
        /\ \A f \in Columns :
              last.body[f] # Undefined => last.data[1][f] = last.body[f]

\* C13: on the same table, the MySQL handler and the PostgreSQL handler
\* answer a GET or a DELETE of an integer id with the same status code and
\* the same envelope, and a successful DELETE with exactly
\* {success: true, message: "Task deleted successfully"}.
C13_BackendsAgree ==
    Ready =>
        \A k \in 1..(MaxId + 1) :
            LET id == NumeralOf(k)
                myGet == MyGetTask("mysql", tasks, nextId, clock, id, FALSE)
                pgGet == PgGetTask("pg_init", tasks, nextId, clock, id, FALSE)
                myDel == MyDeleteTask("mysql", tasks, nextId, clock, id, FALSE)
                pgDel == PgDeleteTask("pg_init", tasks, nextId, clock, id, FALSE)
            IN /\ myGet.resp = pgGet.resp
               /\ myDel.resp = pgDel.resp
               /\ pgDel.resp.status = 200 =>
                     pgDel.resp = Json(200, TRUE, Undefined,
                                       "Task deleted successfully", <<>>, NoCount, <<>>)

\* The 500 a handler answers when a statement of <verb> fails: the error
\* names the verb, the message is the engine's.
IsFailure(resp, error) ==
    /\ resp.status = 500 /\ resp.success = FALSE
    /\ resp.error = error /\ resp.message \notin {Undefined, NoErr}

\* The outcome of a request whose first statement fails: either the
\* handler answered 4xx before any statement, or it answers the 500 of its
\* verb after that one statement, the table as it was.
FailsOnce(o, error) ==
    /\ o.done
    /\ o.tasks = tasks /\ o.nextId = nextId
    /\ \/ o.stmts = 0 /\ o.resp.status = 400
       \/ o.stmts = 1 /\ IsFailure(o.resp, error)

\* The outcome of a MySQL create or update whose re-fetch fails.
RefetchFailsOnce(o, error) ==
    o.done \/ LET x == IF o.cont[1].op = "POST"
                           THEN MyPostRefetch(db, o.tasks, o.nextId, o.clock,
                                              o.cont[1], TRUE)
                           ELSE MyPutRefetch(db, o.tasks, o.nextId, o.clock,
                                             o.cont[1], TRUE)
              IN x.done /\ x.stmts = 2 /\ IsFailure(x.resp, error)
                 /\ x.tasks = o.tasks

\* C14: when a statement fails during any of the five task operations the
\* request is answered 500 {success: false, error: "Failed to <verb>
\* task(s)", message}, every statement of the request has been issued at
\* most once, and the handler has answered (the failure does not escape).
C14_FailureAnswered500 ==
    Ready =>
        /\ \A o \in ListTasks(db, tasks, nextId, clock, TRUE) :
              FailsOnce(o, "Failed to fetch tasks") /\ o.stmts = 1
        /\ \A id \in PathIds :
              /\ LET o == GetTask(db, tasks, nextId, clock, id, TRUE)
                 IN FailsOnce(o, "Failed to fetch task") /\ o.stmts = 1
              /\ LET o == DeleteTask(db, tasks, nextId, clock, id, TRUE)
                 IN FailsOnce(o, "Failed to delete task") /\ o.stmts = 1
              /\ \A body \in AnyBodies :
                    /\ FailsOnce(PutTask(db, tasks, nextId, clock, id, body, TRUE),
                                 "Failed to update task")
                    /\ RefetchFailsOnce(PutTask(db, tasks, nextId, clock, id,
                                                body, FALSE),
                                        "Failed to update task")
        /\ \A body \in AnyBodies :
              /\ FailsOnce(PostTask(db, tasks, nextId, clock, body, TRUE),
                           "Failed to create task")
              /\ RefetchFailsOnce(PostTask(db, tasks, nextId, clock, body, FALSE),
                                  "Failed to create task")

\* The re-fetch of a MySQL create failed and the request was answered 500
\* after its two statements.
C14_Witness ==
    /\ last.op = "POST" /\ last.status = 500
    /\ last.error = "Failed to create task" /\ last.stmts = 2
    /\ db = "mysql" /\ tasks # {}

\* C15: the 500 that answers a task request whose statement failed does not
\* depend on the engine's diagnostic: two runs of the same request on the
\* same table that both fail, with different diagnostics, are answered
\* alike.  (No task handler reads NODE_ENV, so this is the behaviour in
\* every mode, production included.)
C15_DiagnosticNotDisclosed ==
    Ready =>
        \A id \in PathIds :
            LET lost == GetTask(db, tasks, nextId, clock, id, TRUE)
                other == GetTask(db, tasks, nextId, clock, id, FALSE)
            IN (lost.resp.status = 500 /\ other.resp.status = 500) =>
                  lost.resp = other.resp

\* C16: GET /health answers 200 with status healthy if and only if every
\* backend the mode requires (both outside production, PostgreSQL alone in
\* production) was probed with success, and 503 with status unhealthy
\* otherwise.
C16_HealthyIffRequiredUp ==
    last.op = "HEALTH" =>
        LET required == IF last.body.env = "production"
                            THEN last.body.postgresql
                            ELSE last.body.mysql /\ last.body.postgresql
        IN IF required
              THEN last.status = 200 /\ last.data[1].status = "healthy"
              ELSE last.status = 503 /\ last.data[1].status = "unhealthy"

\* C17: every /health response reports each backend connected exactly when
\* its own probe succeeded and disconnected exactly when it failed,
\* whatever the other probe and the mode.
C17_BreakdownPerBackend ==
    last.op = "HEALTH" =>
        /\ Len(last.data) = 1
        /\ last.data[1].databases.mysql =
              IF last.body.mysql THEN "connected" ELSE "disconnected"
        /\ last.data[1].databases.postgresql =
              IF last.body.postgresql THEN "connected" ELSE "disconnected"

\* In production, with MySQL down and PostgreSQL up, /health has named
\* MySQL as the one disconnected.
C17_Witness ==
    /\ last.op = "HEALTH" /\ last.body.env = "production"
    /\ ~last.body.mysql /\ last.body.postgresql
    /\ last.data[1].databases =
          [mysql |-> "disconnected", postgresql |-> "connected"]

\* C18: after any sequence of create and update requests, every persisted
\* task has a non-empty title.
C18_TitleNonEmpty ==
    \A r \in tasks : r.title \notin {"", Null, Undefined}

\* C19: no two tasks share an id; no request changes the id or the
\* created_at of an existing task; an update, whatever its body (bodies
\* with id and created_at keys included), leaves the id and created_at of
\* every row as they were and neither adds nor removes a row.
C19_IdsUnique ==
    \A r1, r2 \in tasks : r1.id = r2.id => r1 = r2

Identity(t) == {<<r.id, r.created_at>> : r \in t}

C19_UpdateKeepsIdentity ==
    Ready =>
        \A id \in PathIds, body \in KeyedBodies, fail \in BOOLEAN :
            LET o == PutTask(db, tasks, nextId, clock, id, body, fail)
            IN /\ Identity(o.tasks) = Identity(tasks)
               /\ Cardinality(o.tasks) = Cardinality(tasks)

C19_StepKeepsIdentity ==
    \A r \in tasks : \A n \in tasks' :
        n.id = r.id => n.created_at = r.created_at

C19_IdentityImmutable ==
    /\ [](C19_IdsUnique /\ C19_UpdateKeepsIdentity)
    /\ [][C19_StepKeepsIdentity]_vars

\* A task has been updated: its updated_at has moved on, its id and
\* created_at are the ones it was created with.
C19_Witness ==
    /\ last.op = "PUT" /\ last.status = 200
    /\ \E r \in tasks :
          /\ r.id = DigitsValue(last.id)
          /\ r.updated_at > r.created_at
          /\ last.data = <<r>>

\* C20: every successful update of a task strictly increases its
\* updated_at, on both backends and under every schema, and every task has
\* updated_at >= created_at.
C20_UpdatedAtIncreases ==
    /\ \A r \in tasks : r.updated_at >= r.created_at
    /\ Ready =>
          \A r \in tasks, body \in AnyBodies :
              LET o == Complete(db, PutTask(db, tasks, nextId, clock,
                                            NumeralOf(r.id), body, FALSE))
              IN o.resp.status = 200 =>
                    \E n \in o.tasks : n.id = r.id /\ n.updated_at > r.updated_at

\* C21: a health request is answered whatever its probes return: each
\* probe yields true or false (the answer is the 200 or the 503 made from
\* the two, never an error), each adapter is probed exactly once for one
\* health request, and the process is still listening after every step of
\* the handler, a failed probe included.
C21_HealthResponded ==
    last.op = "HEALTH" =>
        /\ last.status \in {200, 503}
        /\ last.error = Undefined
        /\ last.body.mysql \in BOOLEAN /\ last.body.postgresql \in BOOLEAN
        /\ \A p \in Pools : last.body.calls[p] = 1
C21_HealthStepKeepsServing ==
    (probe.for = "health" /\ (probe'.for = "health" \/ last'.op = "HEALTH"))
        => server'.phase = "listening"
C21_FailedProbeIsAnAnswer ==
    [](C21_HealthResponded) /\ [][C21_HealthStepKeepsServing]_vars
C21_Witness ==
    /\ last.op = "HEALTH"
    /\ ~last.body.mysql /\ ~last.body.postgresql
    /\ last.status = 503
    /\ server.phase = "listening"

\* C22: every connection a probe or a pool.query() took is back in its
\* pool when the operation has ended, also when its query failed: with no
\* probe and no pool.query() in progress, no connection of either pool is
\* checked out.
C22_AllReturned ==
    (/\ probe.pc \in {"idle", "done"}
     /\ \A p \in Pools : pools[p].executing = 0 /\ pools[p].waiting = 0)
        => \A p \in Pools : pools[p].out = 0

\* C23: a probe reports success only after it has executed a trivial
\* round-trip query on its backend and that query succeeded: a probe that
\* returned true is a probe whose query succeeded, for either adapter.
C23_SuccessOnlyAfterQuery ==
    /\ probe.mysqlStatus => "mysql" \in probe.queried
    /\ probe.postgresStatus => "postgresql" \in probe.queried

\* C24: every GET /health is eventually answered (as long as the process
\* lives), also when a backend never answers or a pool has no free
\* connection.
C24_HealthAnswered ==
    (probe.for = "health") ~> (last.op = "HEALTH" \/ server.phase = "exited")

\* C25: in each pool the connections checked out never exceed the
\* configured maximum, 10 for MySQL and 20 for PostgreSQL (the value the
\* configuration test expects of new Pool()), and a request is queued only
\* once all connections of that maximum are in use.
expectedMax == 20
ExpectedMaximum(p) == IF p = "mysql" THEN connectionLimit ELSE expectedMax
C25_WithinExpectedMaximum ==
    \A p \in Pools :
        /\ pools[p].out <= ExpectedMaximum(p)
        /\ pools[p].waiting > 0 => pools[p].out = ExpectedMaximum(p)

\* C26: an error of an idle pooled connection, of either pool, terminates
\* the process: a step in which a pool loses the connection it kept idle
\* while none was taken or given back leaves the process exited.
C26_IdleConnectionLost(p) ==
    /\ pools[p].idle /\ ~pools'[p].idle
    /\ server.phase # "exited"
C26_IdleErrorStep ==
    \A p \in Pools : C26_IdleConnectionLost(p) => server'.phase = "exited"
C26_IdleErrorTerminates == [][C26_IdleErrorStep]_vars

\* C27: updates of one task that overlap end in the row that results from
\* applying their UPDATE statements one after the other in the order the
\* engine executed them: each UPDATE that matches acts on the row as the
\* statement before it left it, gives every column it sets its own value
\* and leaves every other column (and every other row) as it found it, so
\* that the later value wins where both set a column and the only value
\* where one does; while the handler of the earlier update still waits for
\* its re-fetch, the row carries what the later statement set.
C27_Applied(c) ==
    LET n == IdParam(db, c.id).n
        old == RowsWithId(tasks, n)
        new == RowsWithId(tasks', n)
    IN /\ Len(old) = 1 /\ Len(new) = 1
       /\ \A f \in Columns :
            new[1][f] = IF c.body[f] # Undefined THEN c.body[f] ELSE old[1][f]
       /\ tasks' \ {new[1]} = tasks \ {old[1]}
C27_StatementApplies ==
    /\ (Len(inflight') = Len(inflight) + 1 /\ inflight'[Len(inflight')].op = "PUT")
          => C27_Applied(inflight'[Len(inflight')])
    /\ (/\ Backend(db) = "postgresql" /\ last.op = "none"
        /\ last'.op = "PUT" /\ last'.status = 200)
          => C27_Applied(last')
C27_LaterWins ==
    \A i \in 1..Len(inflight) :
        LET j == Len(inflight) IN
        (/\ j = MaxInflight /\ i < j
         /\ inflight[i].op = "PUT" /\ inflight[j].op = "PUT"
         /\ IdParam(db, inflight[i].id).n = IdParam(db, inflight[j].id).n)
            => \A r \in tasks : r.id = IdParam(db, inflight[j].id).n =>
                 \A f \in Columns :
                    inflight[j].body[f] # Undefined => r[f] = inflight[j].body[f]
C27_UpdatesSerialize == [](C27_LaterWins) /\ [][C27_StatementApplies]_vars
C27_Witness ==
    /\ Len(inflight) = 2
    /\ inflight[1].op = "PUT" /\ inflight[2].op = "PUT"
    /\ inflight[1].id = inflight[2].id
    /\ inflight[1].body.status = "completed"
    /\ inflight[2].body.status = "in_progress"
    /\ \E r \in tasks : r.id = IdParam(db, inflight[2].id).n /\ r.status = "in_progress"

\* C28: under every interleaving of requests, a 201 response to a create
\* and a 200 response to an update carry in data a Task with its six
\* fields, never an absent value, also when another request deleted the
\* row between the write and the re-fetch.
C28_ResponseCarriesTask ==
    (\/ last.op = "POST" /\ last.status = 201
     \/ last.op = "PUT" /\ last.status = 200)
        => /\ Len(last.data) = 1
           /\ {"id", "title", "description", "status", "created_at", "updated_at"}
                  \subseteq DOMAIN last.data[1]

\* C29: the server begins to accept requests only after both startup
\* probes have completed, and never when the PostgreSQL startup probe
\* failed: the process then exits with a non-zero code instead.
C29_StartStep ==
    /\ (server.phase = "starting" /\ server'.phase = "listening")
          => (probe.pc = "done" /\ probe.postgresStatus)
    /\ (/\ server.phase = "starting" /\ probe.pc = "done"
        /\ ~probe.postgresStatus /\ server' # server)
          => (server'.phase = "exited" /\ server'.code # <<0>>)
C29_ListensOnlyWithPostgres == [][C29_StartStep]_vars

\* C30: every run of a task handler or of the health handler sends
\* exactly one response, whatever the request and whether its statements
\* succeed or fail: no path ends with none sent, none sends a second.
C30_Refetched(o, fail) ==
    IF o.done THEN o
    ELSE IF o.cont[1].op = "POST"
        THEN MyPostRefetch(db, o.tasks, o.nextId, o.clock, o.cont[1], fail)
    ELSE MyPutRefetch(db, o.tasks, o.nextId, o.clock, o.cont[1], fail)
C30_OneSent(o) ==
    \A fail \in BOOLEAN :
        LET x == C30_Refetched(o, fail)
        IN /\ x.done
           /\ x.resp.status # 0
           /\ (IF o.done THEN 0 ELSE o.sent) + x.sent = 1
====
